---- MODULE Spec2Model ----
(***************************************************************************)
(* State-machine model of example/decode-example.c of libimxvpuapi: main,  *)
(* init, decode_frame and shutdown, together with the collaborators they   *)
(* drive (the decoder engine, the DMA buffer allocator and the h.264       *)
(* access-unit reader).                                                    *)
(***************************************************************************)
EXTENDS Integers, Sequences, FiniteSets, TLC

\* ------------------------------------------------------------------ bounds
\* Largest number of access units the input file holds.
MaxUnits == 2
\* Largest number of decode steps taken in drain mode (the last one reports EOS).
MaxDrainSteps == 2
\* Largest number of steps whose output code has INITIAL_INFO_AVAILABLE set.
MaxInfoEvents == 2
\* Largest min_num_required_framebuffers the engine asks for.
MaxFB == 2
\* Largest number of failing collaborator calls in one session of SpecFaults.
MaxFaults == 1

\* --------------------------------------------------------- program constants
RETVAL_OK == 0
RETVAL_ERROR == 1
RETVAL_EOS == 2
\* app_data->frame_id_counter = 100
FrameIdBase == 100
\* context of the i-th framebuffer of a pool is 0x2000 + i
FbContextBase == 8192
\* NULL pointer: no buffer, no context, no codec data
NULL == 0

INITIAL_INFO_AVAILABLE == "INITIAL_INFO_AVAILABLE"
DECODED_PICTURE_AVAILABLE == "DECODED_PICTURE_AVAILABLE"
DROPPED == "DROPPED"
EOS == "EOS"
\* The output-code bits decode_frame tests.
OutputCodes == {INITIAL_INFO_AVAILABLE, DECODED_PICTURE_AVAILABLE, DROPPED, EOS}

VARIABLES
  pc,                \* position of main
  exitCode,          \* value main returned; -1 while it runs
  remaining,         \* access units left in the input file (h264_ctx)
  frame_id_counter,  \* app_data.frame_id_counter
  initial_info,      \* app_data.initial_info
  calculated_sizes,  \* app_data.calculated_sizes
  num_framebuffers,  \* app_data.num_framebuffers
  framebuffers,      \* app_data.framebuffers
  fb_dmabuffers,     \* app_data.fb_dmabuffers
  bitstream_buffer,  \* app_data.bitstream_buffer
  engine,            \* decoder engine: "unloaded", "open" or "closed"
  drain_mode,        \* the engine's drain mode flag
  registered,        \* slots of the pool the engine currently has registered
  owned,             \* slots handed to the consumer and not yet marked displayed
  heap,              \* DMA buffers ever allocated: size, alignment, deallocations
  output_code,       \* output code of the last decode call
  ret,               \* value the last decode_frame returned; -1 before the first
  calls,             \* collaborator calls the last handler made, in order
  submitted,         \* contexts of the non-drain units submitted, in order
  numDecoded,        \* steps whose output code had DECODED_PICTURE_AVAILABLE
  numInfo,           \* steps whose output code had INITIAL_INFO_AVAILABLE
  numMarked,         \* mark_framebuffer_as_displayed calls
  numDelivered,      \* pictures written to the output file (fwrite calls)
  numRegistered,     \* register_framebuffers calls
  numPools,          \* framebuffer arrays malloc'ed so far
  numDrainSteps,     \* decode calls made in drain mode
  numShutdowns,      \* shutdown calls
  markUnowned,       \* some slot was marked displayed while the consumer did not own it
  callAfterClose,    \* some engine call was made after imx_vpu_dec_close
  faults             \* failing collaborator calls so far

vars == << pc, exitCode, remaining, frame_id_counter, initial_info, calculated_sizes,
           num_framebuffers, framebuffers, fb_dmabuffers, bitstream_buffer, engine,
           drain_mode, registered, owned, heap, output_code, ret, calls, submitted,
           numDecoded, numInfo, numMarked, numDelivered,
                  numRegistered, numPools, numDrainSteps,
           numShutdowns, markUnowned, callAfterClose, faults >>

\* ------------------------------------------------------------------ helpers
\* One collaborator call: operation, two arguments, and whether it succeeded.
Call(op, a, b, ok) == [op |-> op, a |-> a, b |-> b, ok |-> ok]

Range(s) == {s[i] : i \in 1..Len(s)}

\* Positions of the calls of operation op in a call sequence.
Positions(cs, op) == {i \in 1..Len(cs) : cs[i].op = op}

\* A framebuffer slot: the i-th element of the p-th framebuffers array.
Slot(p, i) == << p, i >>
NoSlot == << 0, 0 >>

\* ------------------------------------------------------------ collaborators
\* memset(&app_data, 0, sizeof(AppData))
ZeroInfo ==
  [min_num_required_framebuffers |-> 0, frame_width |-> 0, frame_height |-> 0,
   framebuffer_alignment |-> 0]

ZeroSizes == [y_size |-> 0, cbcr_size |-> 0, mvcol_size |-> 0, total_size |-> 0]

\* What imx_vpu_dec_get_initial_info can report at the k-th initial-info event: any
\* framebuffer count, and a geometry that changes from one event to the next.
InitialInfos(k) ==
  { [min_num_required_framebuffers |-> n,
     frame_width |-> IF k % 2 = 1 THEN 16 ELSE 32, frame_height |-> 16,
     framebuffer_alignment |-> IF k % 2 = 1 THEN 1 ELSE 4096] : n \in 1..MaxFB }

\* imx_vpu_dec_calc_framebuffer_sizes: geometry as a pure function of the info.
CalcFramebufferSizes(info) ==
  LET y == info.frame_width * info.frame_height
      c == y \div 4
  IN [y_size |-> y, cbcr_size |-> c, mvcol_size |-> c, total_size |-> y + 2 * c + c]

\* h264_ctx_read_access_unit: offsets of the next access unit (the units of the file
\* differ in size); none is left when the end offset does not exceed the start offset.
ReadAccessUnit(left) ==
  IF left > 0 THEN [au_start_offset |-> 0, au_end_offset |-> left]
              ELSE [au_start_offset |-> 0, au_end_offset |-> 0]

\* imx_vpu_dma_buffer_allocate, n times: the buffer ids handed out when the
\* failAt-th allocation (0: none) fails and returns NULL.
AllocatedBuffers(n, failAt, base) ==
  [i \in 1..n |-> IF i = failAt THEN NULL
                  ELSE base + i - (IF failAt > 0 /\ failAt < i THEN 1 ELSE 0)]

\* The heap after allocating bufs (NULL entries allocate nothing).
HeapAfterAllocate(h, bufs, size, alignment) ==
  LET fresh == {b \in Range(bufs) : b # NULL}
  IN [b \in 1..(Len(h) + Cardinality(fresh)) |->
        IF b <= Len(h) THEN h[b]
        ELSE [size |-> size, alignment |-> alignment, deallocs |-> 0]]

\* The heap after imx_vpu_dma_buffer_deallocate of each buffer of bufs in turn.
HeapAfterDeallocate(h, bufs) ==
  [b \in 1..Len(h) |->
     [h[b] EXCEPT !.deallocs = @ + Cardinality({i \in 1..Len(bufs) : bufs[i] = b})]]

\* ------------------------------------------------------------- decode_frame
\* The unit handed to imx_vpu_dec_decode: empty in drain mode, otherwise the access
\* unit just read, with the frame id counter as its context.
EncodedFrame(drain, au, counter) ==
  IF drain
    THEN [data_size |-> 0, codec_data |-> NULL, codec_data_size |-> 0, context |-> NULL]
    ELSE [data_size |-> au.au_end_offset - au.au_start_offset, codec_data |-> NULL,
          codec_data_size |-> 0, context |-> counter]

\* Variant: a strict comparison, which an empty read does not satisfy.
NoAccessUnitStrict(au) == au.au_end_offset < au.au_start_offset

\* if (au_end_offset <= au_start_offset) return RETVAL_EOS;
NoAccessUnit(au) == au.au_end_offset <= au.au_start_offset

\* if (output_code & IMX_VPU_DEC_OUTPUT_CODE_INITIAL_INFO_AVAILABLE)
HandlesInitialInfo(oc) == INITIAL_INFO_AVAILABLE \in oc

\* Variant: a picture is fetched for a dropped frame as well.
HandlesDecodedPictureOrDropped(oc) == DECODED_PICTURE_AVAILABLE \in oc \/ DROPPED \in oc

\* if (output_code & IMX_VPU_DEC_OUTPUT_CODE_DECODED_PICTURE_AVAILABLE)
HandlesDecodedPicture(oc) == DECODED_PICTURE_AVAILABLE \in oc

\* Variant: the DROPPED check is a branch of its own.
HandlesDroppedAlone(oc) == DROPPED \in oc

\* else if (output_code & IMX_VPU_DEC_OUTPUT_CODE_DROPPED)
HandlesDropped(oc) == ~HandlesDecodedPicture(oc) /\ DROPPED \in oc

\* Variant: a dropped frame ends the stream like EOS does.
HandlesEosOrDropped(oc) == EOS \in oc \/ DROPPED \in oc

\* if (output_code & IMX_VPU_DEC_OUTPUT_CODE_EOS)
HandlesEos(oc) == EOS \in oc

\* Variant: one framebuffer more than the engine asked for.
PoolSizeWithSpare(info) == info.min_num_required_framebuffers + 1

\* app_data->num_framebuffers = app_data->initial_info.min_num_required_framebuffers
PoolSize(info) == info.min_num_required_framebuffers

\* imx_vpu_dec_fill_framebuffer_params(&framebuffers[i], ..., fb_dmabuffers[i], 0x2000 + i)
\* for the i-th (from 1) buffer of the pool.
FillFramebufferParams(buf, i) == [dma_buffer |-> buf, context |-> FbContextBase + (i - 1)]

\* Variant: registers the pool a second time after building it.
RegisterCallsTwice(n, sizes, info, bufs, pool, infoOk, registerOk) ==
  << Call("get_initial_info", 0, 0, infoOk) >>
  \o [i \in 1..n |-> Call("allocate", sizes.total_size, info.framebuffer_alignment,
                          bufs[i] # NULL)]
  \o << Call("register_framebuffers", n, pool, registerOk),
        Call("register_framebuffers", n, pool, registerOk) >>

\* The calls of the INITIAL_INFO_AVAILABLE branch: get_initial_info, one allocation
\* per framebuffer, then one register_framebuffers, whatever the allocations returned.
RegisterCalls(n, sizes, info, bufs, pool, infoOk, registerOk) ==
  << Call("get_initial_info", 0, 0, infoOk) >>
  \o [i \in 1..n |-> Call("allocate", sizes.total_size, info.framebuffer_alignment,
                          bufs[i] # NULL)]
  \o << Call("register_framebuffers", n, pool, registerOk) >>

\* Variant: marks the first framebuffer of the pool instead of the picture's.
MarkedFirstFramebuffer(picture) == Slot(picture.framebuffer[1], 1)

\* imx_vpu_dec_mark_framebuffer_as_displayed(vpudec, decoded_picture.framebuffer)
MarkedFramebuffer(picture) == picture.framebuffer

\* Variant: the picture is written to the output file twice.
PictureCallsWriteTwice(picture, sizes, markOk) ==
  << Call("get_decoded_picture", picture.framebuffer, picture.context, TRUE),
     Call("map", picture.framebuffer, 0, TRUE),
     Call("fwrite", sizes.y_size + sizes.cbcr_size * 2, 0, TRUE),
     Call("fwrite", sizes.y_size + sizes.cbcr_size * 2, 0, TRUE),
     Call("unmap", picture.framebuffer, 0, TRUE),
     Call("mark_displayed", MarkedFramebuffer(picture), 0, markOk) >>

\* Variant: the framebuffer is marked displayed before it is mapped and written.
PictureCallsMarkFirst(picture, sizes, markOk) ==
  << Call("get_decoded_picture", picture.framebuffer, picture.context, TRUE),
     Call("mark_displayed", MarkedFramebuffer(picture), 0, markOk),
     Call("map", picture.framebuffer, 0, TRUE),
     Call("fwrite", sizes.y_size + sizes.cbcr_size * 2, 0, TRUE),
     Call("unmap", picture.framebuffer, 0, TRUE) >>

\* The calls of the DECODED_PICTURE_AVAILABLE branch.
PictureCalls(picture, sizes, markOk) ==
  << Call("get_decoded_picture", picture.framebuffer, picture.context, TRUE),
     Call("map", picture.framebuffer, 0, TRUE),
     Call("fwrite", sizes.y_size + sizes.cbcr_size * 2, 0, TRUE),
     Call("unmap", picture.framebuffer, 0, TRUE),
     Call("mark_displayed", MarkedFramebuffer(picture), 0, markOk) >>

\* The calls of the DROPPED branch.
DroppedCalls == << Call("get_dropped_frame_context", 0, 0, TRUE) >>

\* Variant: the counter advances by two.
NextFrameIdByTwo(counter) == counter + 2

\* Variant: the counter is not advanced.
NextFrameIdStuck(counter) == counter

\* app_data->frame_id_counter++ (an unsigned int: it wraps only after 2^32 steps,
\* far beyond any session of this model)
NextFrameId(counter) == counter + 1

\* return ok ? RETVAL_OK : RETVAL_EOS;
Retval(ok) == IF ok # 0 THEN RETVAL_OK ELSE RETVAL_EOS

\* Variant: main never leaves a loop on RETVAL_EOS.
AfterStepIgnoresEos(r, loop, onEos) ==
  IF r = RETVAL_ERROR THEN "shutdown_error" ELSE loop

\* The loop bodies of main: leave the loop on RETVAL_EOS, shut down and return 1
\* on RETVAL_ERROR, otherwise go round again.
AfterStep(r, loop, onEos) ==
  IF r = RETVAL_EOS THEN onEos
  ELSE IF r = RETVAL_ERROR THEN "shutdown_error"
  ELSE loop

\* ----------------------------------------------------------------- shutdown
\* Variant: the engine is unloaded before the buffers are released.
ShutdownCallsUnloadEarly(bufs, n, bitstream) ==
  << Call("close", 0, 0, TRUE), Call("unload", 0, 0, TRUE),
     Call("free_framebuffers", 0, 0, TRUE) >>
  \o [i \in 1..n |-> Call("deallocate", bufs[i], "framebuffer", TRUE)]
  \o << Call("free_fb_dmabuffers", 0, 0, TRUE),
        Call("deallocate", bitstream, "bitstream", TRUE) >>

\* The calls of shutdown, in order.
ShutdownCalls(bufs, n, bitstream) ==
  << Call("close", 0, 0, TRUE), Call("free_framebuffers", 0, 0, TRUE) >>
  \o [i \in 1..n |-> Call("deallocate", bufs[i], "framebuffer", TRUE)]
  \o << Call("free_fb_dmabuffers", 0, 0, TRUE),
        Call("deallocate", bitstream, "bitstream", TRUE),
        Call("unload", 0, 0, TRUE) >>

\* The buffers a call sequence deallocates, in order.
Deallocated(cs) ==
  LET F[i \in 0..Len(cs)] ==
        IF i = 0 THEN << >>
        ELSE IF cs[i].op = "deallocate" THEN Append(F[i - 1], cs[i].a) ELSE F[i - 1]
  IN F[Len(cs)]

\* ------------------------------------------------------------------- state
Init ==
  /\ pc = "init"
  /\ exitCode = -1
  /\ remaining \in 0..MaxUnits
  /\ frame_id_counter = 0
  /\ initial_info = ZeroInfo
  /\ calculated_sizes = ZeroSizes
  /\ num_framebuffers = 0
  /\ framebuffers = << >>
  /\ fb_dmabuffers = << >>
  /\ bitstream_buffer = NULL
  /\ engine = "unloaded"
  /\ drain_mode = FALSE
  /\ registered = {}
  /\ owned = {}
  /\ heap = << >>
  /\ output_code = {}
  /\ ret = -1
  /\ calls = << >>
  /\ submitted = << >>
  /\ numDecoded = 0
  /\ numInfo = 0
  /\ numMarked = 0
  /\ numDelivered = 0
  /\ numRegistered = 0
  /\ numPools = 0
  /\ numDrainSteps = 0
  /\ numShutdowns = 0
  /\ markUnowned = FALSE
  /\ callAfterClose = FALSE
  /\ faults = 0

\* init: parse the arguments, open both files, start the frame id counter, load
\* the engine, allocate the bitstream buffer and open the decoder.
MainInit ==
  /\ pc = "init"
  /\ \E outcome \in {"ok", "bad_args", "fin_failed", "fout_failed"} :
       IF outcome # "ok"
         THEN /\ pc' = "exited"
              /\ exitCode' = 1
              /\ UNCHANGED << remaining, frame_id_counter, initial_info, calculated_sizes,
                              num_framebuffers, framebuffers, fb_dmabuffers,
                              bitstream_buffer, engine, drain_mode, registered, owned,
                              heap, output_code, ret, calls, submitted, numDecoded,
                              numInfo, numMarked, numDelivered,
                  numRegistered, numPools, numDrainSteps,
                              numShutdowns, markUnowned, callAfterClose, faults >>
         ELSE /\ pc' = "decoding"
              /\ frame_id_counter' = FrameIdBase
              /\ bitstream_buffer' = Len(heap) + 1
              /\ heap' = HeapAfterAllocate(heap, << Len(heap) + 1 >>, 1, 1)
              /\ engine' = "open"
              /\ calls' = << Call("load", 0, 0, TRUE), Call("allocate", 1, 1, TRUE),
                             Call("open", 0, 0, TRUE) >>
              /\ UNCHANGED << exitCode, remaining, initial_info, calculated_sizes,
                              num_framebuffers, framebuffers, fb_dmabuffers, drain_mode,
                              registered, owned, output_code, ret, submitted, numDecoded,
                              numInfo, numMarked, numDelivered,
                  numRegistered, numPools, numDrainSteps,
                              numShutdowns, markUnowned, callAfterClose, faults >>

\* decode_frame, called from the loop of main at position loop; onEos is where
\* main goes when the step returns RETVAL_EOS. At most budget collaborator calls
\* of the session fail (the code checks the result of none of them).
DecodeFrame(loop, onEos, budget) ==
  /\ pc = loop
  /\ \E readOk \in (IF ~drain_mode /\ remaining = 1 THEN {0, 1}
                      ELSE IF ~drain_mode /\ remaining = 0 THEN {0} ELSE {1}) :
     LET drain == drain_mode
         au == ReadAccessUnit(remaining)
     IN
     IF ~drain /\ NoAccessUnit(au)
     THEN \* regular mode and the source is exhausted: return before the decode call
          /\ ret' = RETVAL_EOS
          /\ pc' = AfterStep(RETVAL_EOS, loop, onEos)
          /\ calls' = << >>
          /\ output_code' = {}
          /\ UNCHANGED << exitCode, remaining, frame_id_counter, initial_info,
                          calculated_sizes, num_framebuffers, framebuffers, fb_dmabuffers,
                          bitstream_buffer, engine, drain_mode, registered, owned, heap,
                          submitted, numDecoded, numInfo, numMarked, numDelivered,
                  numRegistered,
                          numPools, numDrainSteps, numShutdowns, markUnowned,
                          callAfterClose, faults >>
     ELSE
       \E decodeOk \in (IF faults < budget THEN BOOLEAN ELSE {TRUE}) :
       \E oc \in (IF decodeOk THEN SUBSET OutputCodes ELSE {{}}) :
       \* bounds of the model
       (HandlesInitialInfo(oc) => numInfo < MaxInfoEvents) /\
       (drain /\ numDrainSteps + 1 >= MaxDrainSteps => HandlesEos(oc)) /\
       \* the step
       (output_code' = oc) /\
       \E fault \in ({"none"} \cup
                     (IF decodeOk /\ faults < budget
                        THEN (IF HandlesInitialInfo(oc)
                                THEN {"get_initial_info", "allocate", "register_framebuffers"}
                                ELSE {})
                             \cup (IF HandlesDecodedPicture(oc) THEN {"mark_displayed"} ELSE {})
                        ELSE {})) :
       \E info \in (IF HandlesInitialInfo(oc) /\ fault # "get_initial_info"
                      THEN InitialInfos(numInfo + 1) ELSE {initial_info}) :
       (initial_info' = info) /\
       \E failAt \in (IF fault = "allocate" THEN 1..PoolSize(info) ELSE {0}) :
       LET frame == EncodedFrame(drain, au, frame_id_counter)
           ok == IF drain THEN 1 ELSE readOk
           \* the INITIAL_INFO_AVAILABLE branch
           n == IF HandlesInitialInfo(oc) THEN PoolSize(info) ELSE num_framebuffers
           sizes == IF HandlesInitialInfo(oc) THEN CalcFramebufferSizes(info)
                                              ELSE calculated_sizes
           bufs == IF HandlesInitialInfo(oc) THEN AllocatedBuffers(n, failAt, Len(heap))
                                             ELSE fb_dmabuffers
           pool == numPools + 1
           registerOk == fault # "register_framebuffers"
           registers == HandlesInitialInfo(oc) /\ registerOk
           registered1 == IF registers THEN {Slot(pool, i) : i \in 1..n} ELSE registered
           owned1 == IF registers THEN {} ELSE owned
           infoCalls == IF HandlesInitialInfo(oc)
                          THEN RegisterCalls(n, sizes, info, bufs, pool,
                                             fault # "get_initial_info", registerOk)
                          ELSE << >>
       IN
       \E slot \in (IF HandlesDecodedPicture(oc) THEN registered1 \ owned1 ELSE {NoSlot}) :
       LET \* the DECODED_PICTURE_AVAILABLE branch
           picture == [framebuffer |-> slot, context |-> 0]
           owned2 == IF HandlesDecodedPicture(oc) THEN owned1 \cup {slot} ELSE owned1
           marked == MarkedFramebuffer(picture)
           owned3 == IF HandlesDecodedPicture(oc) /\ fault # "mark_displayed"
                       THEN owned2 \ {marked} ELSE owned2
           pictureCalls == IF HandlesDecodedPicture(oc)
                             THEN PictureCalls(picture, sizes, fault # "mark_displayed")
                             ELSE << >>
           droppedCalls == IF HandlesDropped(oc) THEN DroppedCalls ELSE << >>
           r == Retval(IF HandlesEos(oc) THEN 0 ELSE ok)
       IN
       /\ remaining' = IF drain THEN remaining ELSE remaining - 1
       /\ calls' = << Call("decode", frame.data_size, frame.context, decodeOk) >>
                   \o infoCalls \o pictureCalls \o droppedCalls
       /\ submitted' = IF drain THEN submitted ELSE Append(submitted, frame.context)
       /\ num_framebuffers' = n
       /\ calculated_sizes' = sizes
       /\ fb_dmabuffers' = bufs
       /\ framebuffers' = IF HandlesInitialInfo(oc)
                            THEN [i \in 1..n |-> FillFramebufferParams(bufs[i], i)]
                            ELSE framebuffers
       /\ heap' = IF HandlesInitialInfo(oc)
                    THEN HeapAfterAllocate(heap, bufs, sizes.total_size,
                                           info.framebuffer_alignment)
                    ELSE heap
       /\ numPools' = IF HandlesInitialInfo(oc) THEN pool ELSE numPools
       /\ numInfo' = IF INITIAL_INFO_AVAILABLE \in oc THEN numInfo + 1 ELSE numInfo
       /\ numRegistered' = numRegistered + Cardinality(Positions(infoCalls, "register_framebuffers"))
       /\ registered' = registered1
       /\ numDecoded' = IF DECODED_PICTURE_AVAILABLE \in oc THEN numDecoded + 1 ELSE numDecoded
       /\ numMarked' = numMarked + Cardinality(Positions(pictureCalls, "mark_displayed"))
       /\ numDelivered' = numDelivered + Cardinality(Positions(pictureCalls, "fwrite"))
       /\ markUnowned' = (markUnowned \/ (HandlesDecodedPicture(oc) /\ marked \notin owned2))
       /\ owned' = owned3
       /\ numDrainSteps' = IF drain THEN numDrainSteps + 1 ELSE numDrainSteps
       /\ callAfterClose' = (callAfterClose \/ engine = "closed")
       /\ faults' = IF decodeOk /\ fault = "none" THEN faults ELSE faults + 1
       /\ frame_id_counter' = NextFrameId(frame_id_counter)
       /\ ret' = r
       /\ pc' = AfterStep(r, loop, onEos)
       /\ UNCHANGED << exitCode, bitstream_buffer, engine, drain_mode, numShutdowns >>

\* main, first loop: feed access units until decode_frame returns RETVAL_EOS.
MainDecodeLoop(budget) == DecodeFrame("decoding", "enable_drain", budget)

\* main: imx_vpu_dec_enable_drain_mode(app_data.vpudec, 1)
MainEnableDrain ==
  /\ pc = "enable_drain"
  /\ drain_mode' = TRUE
  /\ calls' = << Call("enable_drain_mode", 1, 0, TRUE) >>
  /\ callAfterClose' = (callAfterClose \/ engine = "closed")
  /\ pc' = "draining"
  /\ UNCHANGED << exitCode, remaining, frame_id_counter, initial_info, calculated_sizes,
                  num_framebuffers, framebuffers, fb_dmabuffers, bitstream_buffer, engine,
                  registered, owned, heap, output_code, ret, submitted, numDecoded,
                  numInfo, numMarked, numDelivered,
                  numRegistered, numPools, numDrainSteps,
                  numShutdowns, markUnowned, faults >>

\* main, second loop: decode with no input until decode_frame returns RETVAL_EOS.
MainDrainLoop(budget) == DecodeFrame("draining", "shutdown", budget)

\* shutdown, and the return of main that follows it.
MainShutdown ==
  /\ pc \in {"shutdown", "shutdown_error"}
  /\ calls' = ShutdownCalls(fb_dmabuffers, num_framebuffers, bitstream_buffer)
  /\ heap' = HeapAfterDeallocate(heap, Deallocated(calls'))
  /\ engine' = "closed"
  /\ registered' = {}
  /\ owned' = {}
  /\ numShutdowns' = numShutdowns + 1
  /\ exitCode' = IF pc = "shutdown_error" THEN 1 ELSE RETVAL_OK
  /\ pc' = "exited"
  /\ UNCHANGED << remaining, frame_id_counter, initial_info, calculated_sizes,
                  num_framebuffers, framebuffers, fb_dmabuffers, bitstream_buffer,
                  drain_mode, output_code, ret, submitted, numDecoded, numInfo, numMarked,
                  numDelivered, numRegistered, numPools, numDrainSteps, markUnowned,
                  callAfterClose,
                  faults >>

\* The program with collaborators whose calls all succeed.
Next ==
  \/ MainInit
  \/ MainDecodeLoop(0)
  \/ MainEnableDrain
  \/ MainDrainLoop(0)
  \/ MainShutdown

Spec == Init /\ [][Next]_vars

\* The program with collaborators of which up to MaxFaults calls fail.
NextFaults ==
  \/ MainInit
  \/ MainDecodeLoop(MaxFaults)
  \/ MainEnableDrain
  \/ MainDrainLoop(MaxFaults)
  \/ MainShutdown

SpecFaults == Init /\ [][NextFaults]_vars

\* The same program under the assumption that it keeps running: main is a
\* sequential program that always goes on to its next statement.
SpecLive == Init /\ [][Next]_vars /\ WF_vars(Next)

\* ------------------------------------------------------------------ claims
\* The last handler was a decode step that reached the decode call.
DecodeStepDone == Positions(calls, "decode") # {}

\* C1: the number of mark_displayed calls never exceeds the number of decode steps
\* whose output code had DECODED_PICTURE_AVAILABLE set, and every mark_displayed
\* call is for the slot that the get_decoded_picture call before it in the same
\* step handed to the consumer, a slot the consumer owns at that moment.
MarkDisplayedOnlyFetchedPicture ==
  /\ numMarked <= numDecoded
  /\ ~markUnowned
  /\ \A i \in Positions(calls, "mark_displayed") :
       \E j \in Positions(calls, "get_decoded_picture") :
         /\ j < i
         /\ calls[j].a = calls[i].a
         /\ \A k \in Positions(calls, "get_decoded_picture") : k < i => k <= j

\* Two pictures have been delivered, the last one in the second slot of its pool.
MarkDisplayedWitness ==
  /\ numMarked = 2
  /\ numDecoded = 2
  /\ \E i \in Positions(calls, "mark_displayed") : calls[i].a[2] = 2

\* C2: register_framebuffers is called exactly once in every decode step whose
\* output code has INITIAL_INFO_AVAILABLE set and never in any other step, and the
\* pool it registers is the one built for that event, which was never registered
\* before.
RegistrationOncePerInitialInfo ==
  /\ numRegistered = numInfo
  /\ numPools = numInfo
  /\ DecodeStepDone /\ INITIAL_INFO_AVAILABLE \in output_code
       => Cardinality(Positions(calls, "register_framebuffers")) = 1
  /\ \A i \in Positions(calls, "register_framebuffers") :
       /\ DecodeStepDone
       /\ INITIAL_INFO_AVAILABLE \in output_code
       /\ calls[i].b = numPools
       /\ calls[i].a = num_framebuffers

\* A second initial-info event has registered a second pool.
RegistrationWitness ==
  /\ numInfo = 2
  /\ numRegistered = 2
  /\ Positions(calls, "register_framebuffers") # {}
  /\ registered = {Slot(2, i) : i \in 1..num_framebuffers}

\* C3: the contexts of the non-drain units submitted to the engine are strictly
\* increasing in submission order.
ContextsStrictlyIncreasing ==
  \A i, j \in 1..Len(submitted) : i < j => submitted[i] < submitted[j]

\* Two units with input data have been submitted.
ContextsWitness ==
  /\ Len(submitted) >= 2
  /\ submitted[1] = FrameIdBase
  /\ ~drain_mode

\* C4: drain mode is enabled only after the input source is exhausted; every unit
\* submitted while drain mode is active has zero data length, no codec data and no
\* context; and once enabled, drain mode stays enabled to the end of the session.
DrainOnlyAfterSourceExhausted ==
  /\ drain_mode => remaining = 0
  /\ drain_mode =>
       \A i \in Positions(calls, "decode") : calls[i].a = 0 /\ calls[i].b = NULL
  /\ pc = "draining" \/ numDrainSteps > 0 => drain_mode

\* C5: at the end of teardown every buffer allocated during the session has been
\* deallocated exactly once.
EveryBufferReleasedOnce ==
  pc = "exited" /\ numShutdowns = 1 =>
    \A b \in 1..Len(heap) : heap[b].deallocs = 1

\* The calls of op all come before the calls of later, and there are some of each.
AllBefore(cs, op, later) ==
  /\ Positions(cs, op) # {}
  /\ Positions(cs, later) # {}
  /\ \A i \in Positions(cs, op), j \in Positions(cs, later) : i < j

\* C6: a session that was opened is torn down exactly once when main leaves, in
\* the order engine close, release of the framebuffer pool, release of the
\* bitstream buffer, engine unload; and no engine call follows the engine close.
TeardownOnceInOrder ==
  /\ pc # "exited" => numShutdowns = 0 /\ engine # "closed"
  /\ pc = "exited" /\ engine # "unloaded" =>
       /\ numShutdowns = 1
       /\ engine = "closed"
       /\ Cardinality(Positions(calls, "close")) = 1
       /\ Cardinality(Positions(calls, "unload")) = 1
       /\ AllBefore(calls, "close", "free_framebuffers")
       /\ AllBefore(calls, "free_framebuffers", "free_fb_dmabuffers")
       /\ \A i \in Positions(calls, "deallocate") :
            /\ \A j \in Positions(calls, "close") : j < i
            /\ \A j \in Positions(calls, "unload") : i < j
            /\ calls[i].b = "framebuffer" =>
                 \A j \in Positions(calls, "free_fb_dmabuffers") : i < j
            /\ calls[i].b = "bitstream" =>
                 /\ calls[i].a = bitstream_buffer
                 /\ \A j \in Positions(calls, "free_fb_dmabuffers") : j < i
       /\ Cardinality({i \in Positions(calls, "deallocate") : calls[i].b = "bitstream"}) = 1
       /\ Deallocated(calls) = fb_dmabuffers \o << bitstream_buffer >>
  /\ ~callAfterClose

\* A session that built a pool of two framebuffers has been torn down.
TeardownWitness ==
  /\ pc = "exited"
  /\ numShutdowns = 1
  /\ num_framebuffers = 2
  /\ numDrainSteps > 0
  /\ Len(Deallocated(calls)) = 3

\* The engine calls of a decode step.
EngineOps ==
  {"decode", "get_initial_info", "register_framebuffers", "get_decoded_picture",
   "mark_displayed"}

\* C7: if an engine call made during a decode step reports a hard failure, the
\* step returns RETVAL_ERROR and main goes to teardown without a further step.
EngineFailureIsFatal ==
  DecodeStepDone /\ (\E i \in 1..Len(calls) : calls[i].op \in EngineOps /\ ~calls[i].ok)
    => ret = RETVAL_ERROR /\ pc = "shutdown_error"

\* C8: if the allocation of one buffer of a pool fails, the buffers already
\* allocated for that pool are released, nothing is registered with the engine,
\* and the step reports the error so that main goes to teardown.
PoolBuildAllOrNothing ==
  DecodeStepDone /\ (\E i \in Positions(calls, "allocate") : ~calls[i].ok)
    => /\ Positions(calls, "register_framebuffers") = {}
       /\ \A i \in 1..Len(fb_dmabuffers) :
            fb_dmabuffers[i] # NULL => heap[fb_dmabuffers[i]].deallocs = 1
       /\ ret = RETVAL_ERROR
       /\ pc = "shutdown_error"

ExhaustedSourceStepAction ==
  (pc \in {"decoding", "draining"} /\ ~drain_mode /\ remaining = 0)
    => (/\ ret' = RETVAL_EOS
        /\ calls' = << >>
        /\ frame_id_counter' = frame_id_counter
        /\ UNCHANGED << num_framebuffers, framebuffers, fb_dmabuffers, registered,
                        owned, heap, numPools, numRegistered, submitted >>)

\* C10: a step taken in regular mode when the source has no access unit left
\* returns RETVAL_EOS without calling the engine and leaves the frame id counter
\* and the framebuffer pool as they were.
ExhaustedSourceStep == [][ExhaustedSourceStepAction]_vars

\* A step found the source exhausted after two units were decoded into a pool.
ExhaustedSourceWitness ==
  /\ pc = "enable_drain"
  /\ remaining = 0
  /\ ret = RETVAL_EOS
  /\ calls = << >>
  /\ frame_id_counter = FrameIdBase + 2
  /\ num_framebuffers > 0

\* The counts of a session so far: pools built against INITIAL_INFO_AVAILABLE
\* steps, pictures written against DECODED_PICTURE_AVAILABLE steps, and the frame
\* identifiers submitted.
SessionCountsSoFar ==
  /\ numPools = numInfo
  /\ numDelivered = numDecoded
  /\ DecodeStepDone =>
       Cardinality(Positions(calls, "fwrite"))
         = (IF DECODED_PICTURE_AVAILABLE \in output_code THEN 1 ELSE 0)
  /\ \A i \in 2..Len(submitted) : submitted[i] > submitted[i - 1]

\* What may follow a drain-mode step whose output code had EOS, and what may
\* follow the start of teardown: no decode call and no picture written.
NoDeliveryAfterDrainEosAction ==
  ((DecodeStepDone /\ drain_mode /\ EOS \in output_code) \/ pc \in {"shutdown", "exited"})
    => (/\ numDelivered' = numDelivered
        /\ Positions(calls', "decode") = {}
        /\ Positions(calls', "fwrite") = {})

\* C11: in every session the number of framebuffer pools built equals the number
\* of steps that reported INITIAL_INFO_AVAILABLE, the number of pictures written to
\* the output equals the number of steps that reported DECODED_PICTURE_AVAILABLE,
\* the frame identifiers of the submitted units are strictly increasing, and after
\* a drain-mode step received EOS no further picture is delivered.
SessionCounts == [] SessionCountsSoFar /\ [][NoDeliveryAfterDrainEosAction]_vars

\* A finished session of two access units and two drain steps: one pool was built
\* and two pictures were delivered.
SessionCountsWitness ==
  /\ pc = "exited"
  /\ Len(submitted) = 2
  /\ numDrainSteps = 2
  /\ numInfo = 1
  /\ numPools = 1
  /\ numDecoded = 2
  /\ numDelivered = 2

\* C12: the frame context counter starts at a non-zero base, is incremented once
\* per submitted non-drain unit and by nothing else (a drain-mode step leaves it
\* unchanged), and always equals the base plus the number of non-drain units
\* submitted so far.
CounterCountsNonDrainUnits ==
  engine # "unloaded" =>
    /\ FrameIdBase # 0
    /\ frame_id_counter = FrameIdBase + Len(submitted)

\* What one step does to the counter: every step that makes a decode call, in
\* drain mode or not, adds one, and nothing else changes it once init has set it.
CounterStepAction ==
  engine # "unloaded" =>
    frame_id_counter' =
      (IF Positions(calls', "decode") # {} THEN frame_id_counter + 1 ELSE frame_id_counter)

\* C12, amended: the counter starts at a non-zero base, is never reset, and is
\* incremented once per decode call, drain-mode calls included, so it always
\* equals the base plus the number of decode calls made so far.
CounterCountsDecodeCalls ==
  /\ [](engine # "unloaded" =>
          /\ FrameIdBase # 0
          /\ frame_id_counter = FrameIdBase + Len(submitted) + numDrainSteps)
  /\ [][CounterStepAction]_vars

\* Units with input data were submitted and a drain-mode step followed: the
\* counter is ahead of the number of non-drain units.
CounterWitness ==
  /\ Len(submitted) >= 2
  /\ numDrainSteps >= 1
  /\ frame_id_counter = FrameIdBase + Len(submitted) + numDrainSteps

\* C13: the process exits with code 0 exactly when the session completed without
\* a fatal error, and with code 1 on a fatal error: a file that could not be opened
\* (init leaves the engine unloaded) or a buffer allocation that failed (a NULL in
\* the framebuffer pool).
ExitCodeReflectsFatalErrors ==
  pc = "exited" =>
    /\ exitCode \in {0, 1}
    /\ exitCode = 1 <=> (engine = "unloaded" \/ NULL \in Range(fb_dmabuffers))

PictureHandlingOrder ==
  /\ numMarked = numDelivered
  /\ \A i \in Positions(calls, "get_decoded_picture") :
       /\ i + 4 <= Len(calls)
       /\ calls[i + 1].op = "map"
       /\ calls[i + 1].a = calls[i].a
       /\ calls[i + 2].op = "fwrite"
       /\ calls[i + 3].op = "unmap"
       /\ calls[i + 3].a = calls[i].a
       /\ calls[i + 4].op = "mark_displayed"
       /\ calls[i + 4].a = calls[i].a
  /\ \A op \in {"map", "fwrite", "unmap", "mark_displayed"} :
       Cardinality(Positions(calls, op))
         = Cardinality(Positions(calls, "get_decoded_picture"))

\* A step has delivered a picture from the second slot of its pool.
PictureHandlingWitness ==
  /\ DecodeStepDone
  /\ DECODED_PICTURE_AVAILABLE \in output_code
  /\ \E i \in Positions(calls, "fwrite") :
       /\ calls[i - 1].op = "map"
       /\ calls[i - 1].a[2] = 2
       /\ calls[i + 2].op = "mark_displayed"

\* C16: get_decoded_picture is called at most once between two consecutive decode
\* calls, and only in a step whose output code has DECODED_PICTURE_AVAILABLE set,
\* after the decode call of that step.
FetchOnlyWhenPictureAvailable ==
  /\ Cardinality(Positions(calls, "decode")) <= 1
  /\ Cardinality(Positions(calls, "get_decoded_picture")) <= 1
  /\ \A i \in Positions(calls, "get_decoded_picture") :
       /\ DECODED_PICTURE_AVAILABLE \in output_code
       /\ \E j \in Positions(calls, "decode") : j < i

\* Two steps in a row have each fetched one picture after their decode call.
FetchWitness ==
  /\ DecodeStepDone
  /\ DECODED_PICTURE_AVAILABLE \in output_code
  /\ Cardinality(Positions(calls, "get_decoded_picture")) = 1
  /\ numDecoded = 2
  /\ numDelivered = 2
  /\ Len(submitted) = 2

PoolAgreesWithInitialInfo ==
  numPools > 0 =>
    /\ num_framebuffers = initial_info.min_num_required_framebuffers
    /\ Len(framebuffers) = num_framebuffers
    /\ Len(fb_dmabuffers) = num_framebuffers
    /\ calculated_sizes = CalcFramebufferSizes(initial_info)
    /\ \A i \in 1..num_framebuffers :
         /\ framebuffers[i].context = FbContextBase + (i - 1)
         /\ framebuffers[i].dma_buffer = fb_dmabuffers[i]
         /\ fb_dmabuffers[i] # NULL =>
              /\ heap[fb_dmabuffers[i]].size = calculated_sizes.total_size
              /\ heap[fb_dmabuffers[i]].alignment = initial_info.framebuffer_alignment
    /\ DecodeStepDone /\ INITIAL_INFO_AVAILABLE \in output_code =>
         /\ Cardinality(Positions(calls, "allocate")) = num_framebuffers
         /\ \A i \in Positions(calls, "allocate") :
              /\ calls[i].a = calculated_sizes.total_size
              /\ calls[i].b = initial_info.framebuffer_alignment

\* A handler that is not a decode step reporting INITIAL_INFO_AVAILABLE leaves
\* the pool and the initial info as they are.
PoolKeptBetweenInitialInfosAction ==
  ~(Positions(calls', "decode") # {} /\ INITIAL_INFO_AVAILABLE \in output_code')
    => /\ num_framebuffers' = num_framebuffers
       /\ framebuffers' = framebuffers
       /\ fb_dmabuffers' = fb_dmabuffers
       /\ initial_info' = initial_info
       /\ calculated_sizes' = calculated_sizes

\* C18: every pool built has exactly initial_info.min_num_required_framebuffers
\* slots, every buffer of it is allocated with the total size computed from that
\* initial info and with its framebuffer alignment, the slots carry the tags
\* 0x2000 + index whatever the frame context counter is, and the pool does not
\* change between one INITIAL_INFO_AVAILABLE event and the next.
PoolGeometryFollowsInitialInfo ==
  [] PoolAgreesWithInitialInfo /\ [][PoolKeptBetweenInitialInfosAction]_vars

\* A second pool of two slots was built from a second initial info, after the
\* frame context counter had moved on.
PoolGeometryWitness ==
  /\ DecodeStepDone
  /\ INITIAL_INFO_AVAILABLE \in output_code
  /\ numPools = 2
  /\ num_framebuffers = 2
  /\ framebuffers[2].context = FbContextBase + 1
  /\ frame_id_counter > FrameIdBase + 1
  /\ heap[fb_dmabuffers[2]].alignment = initial_info.framebuffer_alignment
  /\ heap[fb_dmabuffers[2]].size # heap[2].size

\* After a decode call whose output code had EOS, the handler that runs next
\* makes no decode call.
NoSubmissionAfterEosAction ==
  EOS \in output_code =>
    /\ Positions(calls', "decode") = {}
    /\ numDrainSteps' = numDrainSteps
    /\ submitted' = submitted

\* C19: once a decode call has returned an output code with EOS set, no further
\* unit is submitted to the engine, neither a unit with data nor a drain-mode
\* unit; only teardown follows.
NoSubmissionAfterEos == [][NoSubmissionAfterEosAction]_vars

\* Position of main among the phases of a session: 0 before the session is
\* opened, 1 while feeding access units, 2 while draining, 3 once torn down.
PhaseRank ==
  CASE pc = "init" -> 0
    [] pc \in {"decoding", "enable_drain"} -> 1
    [] pc \in {"draining", "shutdown", "shutdown_error"} -> 2
    [] pc = "exited" -> 3

\* An opened session stays in its phase or moves to the next one, and nothing
\* happens once it is closed.
PhaseOrderAction ==
  /\ engine # "unloaded" => PhaseRank' \in {PhaseRank, PhaseRank + 1}
  /\ pc = "exited" => UNCHANGED vars
  /\ drain_mode => drain_mode'

\* C20: with a finite input file and an engine that reports EOS after finitely
\* many drain-mode steps, every opened session is eventually torn down and closed;
\* it goes through the phases decoding, draining, closed in this order, never back
\* from draining to decoding, and nothing follows the closed phase.
SessionTerminatesInOrder ==
  /\ (engine = "open") ~> (pc = "exited" /\ engine = "closed" /\ numShutdowns = 1)
  /\ [][PhaseOrderAction]_vars
  /\ [](engine = "closed" => pc = "exited" /\ drain_mode /\ numDrainSteps >= 1)

\* A session that fed two access units and took two drain-mode steps is closed.
SessionTerminatesWitness ==
  /\ pc = "exited"
  /\ engine = "closed"
  /\ Len(submitted) = 2
  /\ numDrainSteps = 2
  /\ numShutdowns = 1

====
